---- MODULE Spec2Model ----
(***************************************************************************)
(* Model of the tile build / merge pipeline of VoxelTree.cpp.              *)
(*                                                                         *)
(* Two threads are interleaved at statement granularity: the driver, which *)
(* calls updateBuild() once per frame, and the merge thread, which runs    *)
(* mergeTiles().  Every VoxelBuilder finishes asynchronously.  Addresses   *)
(* (VoxelPointer) are word offsets into the writer's buffer, counted from  *)
(* 0; TLA+ sequences are indexed from 1, so word p is arena[p + 1].        *)
(***************************************************************************)
EXTENDS Integers, Sequences, FiniteSets, TLC

\* ------------------------------------------------------------ constants
\* TileSubdivisons: tiles per axis (declared in VoxelTree.hpp).
TileSubdivisons == 2

\* ConcurrentBuilds: the admission cap (declared in VoxelTree.hpp).
ConcurrentBuilds == 2

\* childMask of the dummy node: 0101010101010101 = 8 unshadowed children.
UnshadowedMask == 21845

\* The builders' subtrees hold between 1 and MaxTreeNodes inner nodes.
MaxTreeNodes == 2

\* Bounds of the buffers and subtrees writeTree is applied to on its own.
MaxPriorLen == 2
MaxSubtreeLen == 3

TileCount == TileSubdivisons * TileSubdivisons
Tiles == 0 .. (TileCount - 1)

\* builder == NULL
NoBuilder == -1

\* ------------------------------------------------------------ words
\* A word of a node buffer is either a mask word or a pointer word.
MaskWord(v) == <<"m", v>>
PtrWord(p) == <<"p", p>>
IsPtr(w) == w[1] = "p"

\* ------------------------------------------------------------ VoxelWriter
\* writeNode(node, level, siblingIndex): append one encoded inner node and
\* return its address.
WriteNode(buf, mask) == [data |-> Append(buf, MaskWord(mask)), ptr |-> Len(buf)]

\* The relocation with the offset left out.
RelocateWordNoOffset(w, off) == w

\* Relocation of one word by the append offset.
RelocateWord(w, off) == IF IsPtr(w) THEN PtrWord(w[2] + off) ELSE w

RECURSIVE CopyRelocated(_, _, _, _)
\* Append words i .. Len(tree) of a foreign subtree, each relocated by off.
CopyRelocated(buf, tree, i, off) ==
    IF i > Len(tree) THEN buf
    ELSE CopyRelocated(Append(buf, RelocateWord(tree[i], off)), tree, i + 1, off)

\* The subtree written over the buffer instead of after it.
WriteTreeInPlace(buf, tree, root) ==
    [data |-> CopyRelocated(<< >>, tree, 1, 0), ptr |-> root]

\* writeTree(subtree, subtreeRoot, tileResolution): append the subtree with
\* every pointer translated by the current length; return the relocated root.
WriteTree(buf, tree, root) ==
    [data |-> CopyRelocated(buf, tree, 1, Len(buf)), ptr |-> root + Len(buf)]

\* ------------------------------------------------------------ VoxelBuilder
RECURSIVE ChainTree(_, _)
\* The node buffer of a subtree of k nodes of tile t, children first: a
\* leaf-level node, then k - 1 nodes each pointing at the node before it.
ChainTree(t, k) ==
    IF k = 1 THEN << MaskWord(10 * (t + 1) + 1) >>
    ELSE LET below == ChainTree(t, k - 1)
             child == IF k = 2 THEN 0 ELSE Len(below) - 2
         IN  below \o << MaskWord(10 * (t + 1) + k), PtrWord(child) >>

\* builder->rootAddress(): the local address of the subtree's root.
ChainRoot(k) == IF k = 1 THEN 0 ELSE 2 * k - 3

\* The size of tile t's subtree: the tiles differ in what they contain.
TreeNodes(t) == 1 + (t % MaxTreeNodes)

\* What the builder of tile t exposes once Done.
BuiltTree(t) == [buf |-> ChainTree(t, TreeNodes(t)), root |-> ChainRoot(TreeNodes(t))]

NoTree == [buf |-> << >>, root |-> 0]

VARIABLES
    startedTiles,    \* startedTiles_
    completedTiles,  \* completedTiles_
    tilesOnGPU,      \* tilesOnGPU_
    activeTiles,     \* activeTiles_: sequence of builder handles (by tile)
    mutex,           \* activeTilesMutex_: "free", "driver" or "merge"
    treePointers,    \* treePointers_: tile -> VoxelPointer
    arena,           \* voxelWriter_'s buffer
    bState,          \* per builder: "None", "Building", "Done", "Deleted"
    bTree,           \* per builder: the subtree it built
    pcD,             \* driver position
    dTile,           \* processFirstQueuedTile: tileIndex
    pcM,             \* merge thread position
    mI,              \* findFinishedBuilder: i
    mBuilder,        \* mergeTiles: builder
    mTile,           \* mergeTiles: tile
    mTree,           \* mergeTiles: subtree, subtreeRoot
    mPtr,            \* mergeTiles: ptr
    pubRoots,        \* root addresses last given to the uniform manager
    pubArena,        \* tree data last uploaded
    admitCount,      \* history: builders created per tile
    writeCount,      \* history: writes of treePointers_[t] by the merge loop
    retPtr,          \* history: what writeTree returned for tile t's subtree
    scanStartDone,   \* history: some active builder was Done when the scan began
    script,          \* completion order imposed on the builders; << >>: none
    dData,           \* updateTreeBuffer: treeData, as the buffer length at data()
    dSize,           \* updateTreeBuffer: treeSizeBytes, in words
    mReleased,       \* table entries stored before the merge thread's last unlock
    resolution,      \* constructor argument
    tileResolution,  \* tileResolution_
    ctor,            \* construction: "new", "aborted" or "running"
    sceneBounds,     \* sceneBoundsLightSpace(): minX, maxX, minY, maxY
    tileRect         \* tileBounds(i) as last computed, or NoRect

vars == << startedTiles, completedTiles, tilesOnGPU, activeTiles, mutex,
           treePointers, arena, bState, bTree, pcD, dTile, pcM, mI, mBuilder,
           mTile, mTree, mPtr, pubRoots, pubArena, admitCount, writeCount,
           retPtr, scanStartDone, script, dData, dSize, mReleased,
           resolution, tileResolution, ctor, sceneBounds, tileRect >>

counters == << startedTiles, completedTiles, tilesOnGPU >>
driverLocals == << pcD, dTile >>
mergeLocals == << pcM, mI, mBuilder, mTile, mTree, mPtr >>
published == << pubRoots, pubArena, dData, dSize >>
builders == << bState, bTree >>
history == << admitCount, writeCount, retPtr, scanStartDone >>
setup == << script, resolution, tileResolution, ctor, sceneBounds, tileRect >>

\* ------------------------------------------------------------ construction
\* lines 20-21: the least and the greatest tile resolution.
MinTileResolution == 8
MaxTileResolution == 16384

\* line 9: tileResolution_(resolution / TileSubdivisons), on ints.
TileResolutionOf(res) == res \div TileSubdivisons

\* The lower assert with > for >=.
AcceptedTileResolutionStrict(r) == r > MinTileResolution /\ r <= MaxTileResolution

\* lines 20-21: assert(tileResolution_ >= 8); assert(tileResolution_ <= 16384).
AcceptedTileResolution(r) == r >= MinTileResolution /\ r <= MaxTileResolution

\* Constructor arguments tried: around both limits of the tile resolution,
\* and the arguments 4, 8 and 32769.
Resolutions == {4, 8, 15, 16, 32769, 32770, 65538}

\* updateTreeBuffer holds no pointer into the buffer.
NoData == -1

\* No rectangle computed yet.
NoRect == [cx |-> -1, cy |-> -1, minX |-> 0, maxX |-> 0, minY |-> 0, maxY |-> 0]

\* A scene of 4 x 4 units with the origin at its least corner.
UnitScene == [minX |-> 0, maxX |-> 4, minY |-> 0, maxY |-> 4]

\* The buffer after the constructor wrote the dummy node.
DummyWrite == WriteNode(<< >>, UnshadowedMask)
DummyPtr == DummyWrite.ptr

InitCommon ==
    /\ startedTiles = 0
    /\ completedTiles = 0
    /\ tilesOnGPU = 0
    /\ activeTiles = << >>
    /\ mutex = "free"
    /\ arena = DummyWrite.data
    /\ treePointers = [t \in Tiles |-> DummyPtr]
    /\ bState = [t \in Tiles |-> "None"]
    /\ bTree = [t \in Tiles |-> NoTree]
    /\ pcD = "idle"
    /\ dTile = 0
    /\ pcM = "loop"
    /\ mI = 0
    /\ mBuilder = NoBuilder
    /\ mTile = 0
    /\ mTree = NoTree
    /\ mPtr = 0
    /\ pubRoots = [t \in Tiles |-> DummyPtr]
    /\ pubArena = DummyWrite.data
    /\ admitCount = [t \in Tiles |-> 0]
    /\ writeCount = [t \in Tiles |-> 0]
    /\ retPtr = [t \in Tiles |-> -1]
    /\ scanStartDone = FALSE
    /\ dData = NoData
    /\ dSize = 0
    /\ mReleased = {}
    /\ resolution = TileSubdivisons * MinTileResolution
    /\ tileResolution = TileResolutionOf(resolution)
    /\ ctor = "running"
    /\ tileRect = [t \in Tiles |-> NoRect]

Init == InitCommon /\ script = << >> /\ sceneBounds = UnitScene

\* Before the constructor has run: nothing is written, no thread runs.
InitConstruct ==
    /\ startedTiles = 0
    /\ completedTiles = 0
    /\ tilesOnGPU = 0
    /\ activeTiles = << >>
    /\ mutex = "free"
    /\ arena = << >>
    /\ treePointers = [t \in Tiles |-> -1]
    /\ bState = [t \in Tiles |-> "None"]
    /\ bTree = [t \in Tiles |-> NoTree]
    /\ pcD = "unbuilt"
    /\ dTile = 0
    /\ pcM = "unstarted"
    /\ mI = 0
    /\ mBuilder = NoBuilder
    /\ mTile = 0
    /\ mTree = NoTree
    /\ mPtr = 0
    /\ pubRoots = [t \in Tiles |-> -1]
    /\ pubArena = << >>
    /\ admitCount = [t \in Tiles |-> 0]
    /\ writeCount = [t \in Tiles |-> 0]
    /\ retPtr = [t \in Tiles |-> -1]
    /\ scanStartDone = FALSE
    /\ script = << >>
    /\ dData = NoData
    /\ dSize = 0
    /\ mReleased = {}
    /\ resolution \in Resolutions
    /\ tileResolution = 0
    /\ ctor = "new"
    /\ sceneBounds = UnitScene
    /\ tileRect = [t \in Tiles |-> NoRect]

\* VoxelTree::VoxelTree, lines 6-50: the asserts of lines 20-21 abort the
\* program before anything is written; otherwise the dummy node is written,
\* every table entry set to it, both uploads made and the merge thread
\* started.
Construct ==
    /\ ctor = "new"
    /\ tileResolution' = TileResolutionOf(resolution)
    /\ IF AcceptedTileResolution(tileResolution')
       THEN /\ ctor' = "running"
            /\ arena' = DummyWrite.data
            /\ treePointers' = [t \in Tiles |-> DummyPtr]
            /\ pubArena' = DummyWrite.data
            /\ pubRoots' = [t \in Tiles |-> DummyPtr]
            /\ pcM' = "loop"
            /\ pcD' = "idle"
       ELSE /\ ctor' = "aborted"
            /\ UNCHANGED << arena, treePointers, pubArena, pubRoots, pcM, pcD >>
    /\ UNCHANGED << counters, activeTiles, mutex, builders, dTile, mI,
                    mBuilder, mTile, mTree, mPtr, dData, dSize, history,
                    mReleased, script, resolution, sceneBounds, tileRect >>

\* ------------------------------------------------------------ counters
\* A counter stepped the wrong way.
Decremented(c) == c - 1

\* lines 104 and 135: the ++ of startedTiles_ and of completedTiles_.
Incremented(c) == c + 1

\* ------------------------------------------------------------ driver thread
\* updateBuild, line 60: the admission test on activeTiles_.size().
CanAdmitInclusive(n) == n <= ConcurrentBuilds

CanAdmit(n) == n < ConcurrentBuilds

\* updateBuild entry: start another tile build if the limit is not met.
D_Begin ==
    /\ pcD = "idle"
    /\ pcD' = IF CanAdmit(Len(activeTiles)) THEN "pf_check" ELSE "gate"
    /\ UNCHANGED << counters, activeTiles, mutex, treePointers, arena,
                    builders, dTile, mergeLocals, published, history, setup, mReleased >>

\* processFirstQueuedTile, lines 82-88 with the tile taken one too far.
NextTileIndexSkipping(s) == IF s + 1 < TileCount THEN s + 1 ELSE s

\* processFirstQueuedTile, line 88: int tileIndex = startedTiles_.
NextTileIndex(s) == s

\* processFirstQueuedTile, lines 82-95: return when no tile is left to
\* start, else take the next queued tile (the depth maps are rendered by
\* the shadow map, outside the pipeline's state).
D_CheckQueued ==
    /\ pcD = "pf_check"
    /\ IF startedTiles = TileCount
       THEN /\ pcD' = "gate"
            /\ UNCHANGED dTile
       ELSE /\ pcD' = "pf_lock"
            /\ dTile' = NextTileIndex(startedTiles)
    /\ UNCHANGED << counters, activeTiles, mutex, treePointers, arena,
                    builders, mergeLocals, published, history, setup, mReleased >>

\* line 99: activeTilesMutex_.lock().
D_Lock ==
    /\ pcD = "pf_lock"
    /\ mutex = "free"
    /\ mutex' = "driver"
    /\ pcD' = "pf_push"
    /\ UNCHANGED << counters, activeTiles, treePointers, arena, builders,
                    dTile, mergeLocals, published, history, setup, mReleased >>

\* line 100: activeTiles_.push_back(new VoxelBuilder(tileIndex, ...)).
D_Push ==
    /\ pcD = "pf_push"
    /\ activeTiles' = Append(activeTiles, dTile)
    /\ bState' = [bState EXCEPT ![dTile] = "Building"]
    /\ bTree' = [bTree EXCEPT ![dTile] = NoTree]
    /\ admitCount' = [admitCount EXCEPT ![dTile] = @ + 1]
    /\ pcD' = "pf_unlock"
    /\ UNCHANGED << counters, mutex, treePointers, arena, dTile,
                    mergeLocals, published, writeCount, retPtr,
                    scanStartDone, setup, mReleased >>

\* line 101: activeTilesMutex_.unlock().
D_Unlock ==
    /\ pcD = "pf_unlock"
    /\ mutex' = "free"
    /\ pcD' = "pf_inc"
    /\ UNCHANGED << counters, activeTiles, treePointers, arena, builders,
                    dTile, mergeLocals, published, history, setup, mReleased >>

\* line 104: startedTiles_ ++.
D_IncStarted ==
    /\ pcD = "pf_inc"
    /\ startedTiles' = Incremented(startedTiles)
    /\ pcD' = "gate"
    /\ dTile' = 0
    /\ UNCHANGED << completedTiles, tilesOnGPU, activeTiles, mutex,
                    treePointers, arena, builders, mergeLocals, published,
                    history, setup, mReleased >>

\* line 66 with the test always taken.
MoreTilesFinishedAlways(onGPU, completed) == TRUE

\* line 66: tilesOnGPU_ < completedTiles_.
MoreTilesFinished(onGPU, completed) == onGPU < completed

\* updateBuild, line 66: the publish gate.  A call that sees nothing new
\* returns.
D_Gate ==
    /\ pcD = "gate"
    /\ pcD' = IF MoreTilesFinished(tilesOnGPU, completedTiles)
              THEN "assign" ELSE "idle"
    /\ UNCHANGED << counters, activeTiles, mutex, treePointers, arena,
                    builders, dTile, mergeLocals, published, history, setup, mReleased >>

\* line 68: the value stored into tilesOnGPU_.
PublishedCount(completed) == completed

\* line 68: tilesOnGPU_ = completedTiles_.
D_Assign ==
    /\ pcD = "assign"
    /\ tilesOnGPU' = PublishedCount(completedTiles)
    /\ pcD' = "uniform"
    /\ UNCHANGED << startedTiles, completedTiles, activeTiles, mutex,
                    treePointers, arena, builders, dTile, mergeLocals,
                    published, history, setup, mReleased >>

\* line 70: updateUniformBuffer() copies treePointers_ into the uniforms.
D_UpdateUniformBuffer ==
    /\ pcD = "uniform"
    /\ pubRoots' = treePointers
    /\ pcD' = "treebuf"
    /\ UNCHANGED << counters, activeTiles, mutex, treePointers, arena,
                    builders, dTile, mergeLocals, pubArena, dData, dSize,
                    history, setup, mReleased >>

\* line 192: treeData = voxelWriter_.data().
D_TreeData ==
    /\ pcD = "treebuf"
    /\ dData' = Len(arena)
    /\ pcD' = "tb_size"
    /\ UNCHANGED << counters, activeTiles, mutex, treePointers, arena,
                    builders, dTile, mergeLocals, pubRoots, pubArena, dSize,
                    history, setup, mReleased >>

\* line 193: treeSizeBytes = voxelWriter_.dataSizeBytes().
D_TreeSize ==
    /\ pcD = "tb_size"
    /\ dSize' = Len(arena)
    /\ pcD' = "tb_upload"
    /\ UNCHANGED << counters, activeTiles, mutex, treePointers, arena,
                    builders, dTile, mergeLocals, pubRoots, pubArena, dData,
                    history, setup, mReleased >>

\* line 196: glBufferData(..., treeSizeBytes, treeData, ...) copies the
\* first treeSizeBytes of the buffer; the call of line 71 returns.
D_UpdateTreeBuffer ==
    /\ pcD = "tb_upload"
    /\ pubArena' = SubSeq(arena, 1, dSize)
    /\ dData' = NoData
    /\ dSize' = 0
    /\ pcD' = "idle"
    /\ UNCHANGED << counters, activeTiles, mutex, treePointers, arena,
                    builders, dTile, mergeLocals, pubRoots, history, setup,
                    mReleased >>

Driver ==
    \/ D_Begin
    \/ D_CheckQueued
    \/ D_Lock
    \/ D_Push
    \/ D_Unlock
    \/ D_IncStarted
    \/ D_Gate
    \/ D_Assign
    \/ D_UpdateUniformBuffer
    \/ D_TreeData
    \/ D_TreeSize
    \/ D_UpdateTreeBuffer

\* ------------------------------------------------------------ builders
\* How many builders have reached Done so far.
FinishedCount == Cardinality({u \in Tiles : bState[u] \in {"Done", "Deleted"}})

\* Under a script the builders reach Done in the scripted order only.
ScriptAllows(t) ==
    script = << >> \/ (FinishedCount < Len(script) /\ script[FinishedCount + 1] = t)

\* The builder of tile t finishes on its background thread: its state
\* becomes Done and its tree and root address become readable.
B_Finish(t) ==
    /\ bState[t] = "Building"
    /\ ScriptAllows(t)
    /\ bTree' = [bTree EXCEPT ![t] = BuiltTree(t)]
    /\ bState' = [bState EXCEPT ![t] = "Done"]
    /\ UNCHANGED << counters, activeTiles, mutex, treePointers, arena,
                    driverLocals, mergeLocals, published, history, setup, mReleased >>

Builders == \E t \in Tiles : B_Finish(t)

\* ------------------------------------------------------------ merge thread
\* line 110: while(completedTiles_ < TileSubdivisons * TileSubdivisons).
M_Loop ==
    /\ pcM = "loop"
    /\ pcM' = IF completedTiles < TileCount THEN "lock" ELSE "done"
    /\ UNCHANGED << counters, activeTiles, mutex, treePointers, arena,
                    builders, driverLocals, mI, mBuilder, mTile, mTree, mPtr,
                    published, history, setup, mReleased >>

\* line 113: activeTilesMutex_.lock(); findFinishedBuilder starts at i = 0.
M_Lock ==
    /\ pcM = "lock"
    /\ mutex = "free"
    /\ mutex' = "merge"
    /\ pcM' = "find"
    /\ mI' = 0
    /\ scanStartDone' = (\E i \in 1 .. Len(activeTiles) :
                            bState[activeTiles[i]] = "Done")
    /\ UNCHANGED << counters, activeTiles, treePointers, arena, builders,
                    driverLocals, mBuilder, mTile, mTree, mPtr, published,
                    admitCount, writeCount, retPtr, setup, mReleased >>

\* The removal without the swap: the last handle is dropped.
PopWithoutSwap(s, i) == SubSeq(s, 1, Len(s) - 1)

\* std::swap(activeTiles_[i], activeTiles_.back()); activeTiles_.pop_back()
\* (i counted from 1 here).
SwapPop(s, i) ==
    [j \in 1 .. (Len(s) - 1) |-> IF j = i THEN s[Len(s)] ELSE s[j]]

\* builder->buildState() as the scanning thread reads it; a read through a
\* deleted builder may return either state.
StateRead(b) ==
    IF bState[b] = "Deleted" THEN {"Building", "Done"} ELSE {bState[b]}

\* findFinishedBuilder, lines 142-159: one iteration of the scan, or the
\* return of NULL after the last one.
M_Find ==
    /\ pcM = "find"
    /\ IF mI >= Len(activeTiles)
       THEN /\ mBuilder' = NoBuilder
            /\ pcM' = "unlock"
            /\ UNCHANGED << activeTiles, mI >>
       ELSE LET b == activeTiles[mI + 1] IN
            \E st \in StateRead(b) :
               IF st = "Done"
               THEN /\ activeTiles' = SwapPop(activeTiles, mI + 1)
                    /\ mBuilder' = b
                    /\ pcM' = "unlock"
                    /\ UNCHANGED mI
               ELSE /\ mI' = mI + 1
                    /\ UNCHANGED << activeTiles, mBuilder, pcM >>
    /\ UNCHANGED << counters, mutex, treePointers, arena, builders,
                    driverLocals, mTile, mTree, mPtr, published, history,
                    setup, mReleased >>

\* The table entries the merge loop has stored so far.
StoredEntries == {t \in Tiles : writeCount[t] > 0}

\* lines 115-120 with the lock kept when no builder was found.
M_UnlockLeaking ==
    /\ pcM = "unlock"
    /\ mutex' = IF mBuilder = NoBuilder THEN mutex ELSE "free"
    /\ pcM' = IF mBuilder = NoBuilder THEN "loop" ELSE "gather"
    /\ mI' = 0
    /\ mReleased' = StoredEntries
    /\ UNCHANGED << counters, activeTiles, treePointers, arena, builders,
                    driverLocals, mBuilder, mTile, mTree, mPtr, published,
                    history, setup >>

\* lines 115-120: activeTilesMutex_.unlock(); continue when builder == NULL.
M_Unlock ==
    /\ pcM = "unlock"
    /\ mutex' = "free"
    /\ pcM' = IF mBuilder = NoBuilder THEN "loop" ELSE "gather"
    /\ mI' = 0
    /\ mReleased' = StoredEntries
    /\ UNCHANGED << counters, activeTiles, treePointers, arena, builders,
                    driverLocals, mBuilder, mTile, mTree, mPtr, published,
                    history, setup >>

\* lines 123-125: tile, subtree and subtreeRoot are read from the builder.
M_Gather ==
    /\ pcM = "gather"
    /\ mTile' = mBuilder
    /\ mTree' = bTree[mBuilder]
    /\ pcM' = "write"
    /\ UNCHANGED << counters, activeTiles, mutex, treePointers, arena,
                    builders, driverLocals, mI, mBuilder, mPtr, published,
                    history, setup, mReleased >>

\* line 128: ptr = voxelWriter_.writeTree(subtree, subtreeRoot, ...).
M_WriteTree ==
    /\ pcM = "write"
    /\ LET w == WriteTree(arena, mTree.buf, mTree.root) IN
          /\ arena' = w.data
          /\ mPtr' = w.ptr
          /\ retPtr' = [retPtr EXCEPT ![mTile] = w.ptr]
    /\ pcM' = "store"
    /\ UNCHANGED << counters, activeTiles, mutex, treePointers, builders,
                    driverLocals, mI, mBuilder, mTile, mTree, published,
                    admitCount, writeCount, scanStartDone, setup, mReleased >>

\* line 129 with the pointer stored into the neighbouring entry.
StoreIndexNeighbour(tile) == (tile + 1) % TileCount

\* line 129: the entry of treePointers_ that is written.
StoreIndex(tile) == tile

\* line 129: treePointers_[tile] = ptr.
M_Store ==
    /\ pcM = "store"
    /\ treePointers' = [treePointers EXCEPT ![StoreIndex(mTile)] = mPtr]
    /\ writeCount' = [writeCount EXCEPT ![StoreIndex(mTile)] = @ + 1]
    /\ pcM' = "delete"
    /\ UNCHANGED << counters, activeTiles, mutex, arena, builders,
                    driverLocals, mI, mBuilder, mTile, mTree, mPtr, published,
                    admitCount, retPtr, scanStartDone, setup, mReleased >>

\* line 132: delete builder.
M_Delete ==
    /\ pcM = "delete"
    /\ bState' = [bState EXCEPT ![mBuilder] = "Deleted"]
    /\ pcM' = "inc"
    /\ UNCHANGED << counters, activeTiles, mutex, treePointers, arena, bTree,
                    driverLocals, mI, mBuilder, mTile, mTree, mPtr, published,
                    history, setup, mReleased >>

\* line 135 with the driver's counter incremented.
M_IncWrongCounter ==
    /\ pcM = "inc"
    /\ startedTiles' = Incremented(startedTiles)
    /\ pcM' = "loop"
    /\ mBuilder' = NoBuilder
    /\ mTile' = 0
    /\ mTree' = NoTree
    /\ mPtr' = 0
    /\ UNCHANGED << completedTiles, tilesOnGPU, activeTiles, mutex,
                    treePointers, arena, builders, driverLocals, mI,
                    published, history, setup, mReleased >>

\* line 135: completedTiles_ ++; the locals of the iteration go out of scope.
M_IncCompleted ==
    /\ pcM = "inc"
    /\ completedTiles' = Incremented(completedTiles)
    /\ pcM' = "loop"
    /\ mBuilder' = NoBuilder
    /\ mTile' = 0
    /\ mTree' = NoTree
    /\ mPtr' = 0
    /\ UNCHANGED << startedTiles, tilesOnGPU, activeTiles, mutex,
                    treePointers, arena, builders, driverLocals, mI,
                    published, history, setup, mReleased >>

Merge ==
    \/ M_Loop
    \/ M_Lock
    \/ M_Find
    \/ M_Unlock
    \/ M_Gather
    \/ M_WriteTree
    \/ M_Store
    \/ M_Delete
    \/ M_IncCompleted

\* ------------------------------------------------------------ specification
Next == Driver \/ Merge \/ Builders

Spec == Init /\ [][Next]_vars

\* ------------------------------------------------------------ writeTree alone
\* Words a subtree buffer of n words can hold: a mask, or a pointer to one
\* of its own words.
SubtreeWords(n) == {MaskWord(1)} \cup {PtrWord(j) : j \in 0 .. (n - 1)}

\* Buffers the writer can hold before a merge.
PriorBuffers ==
    UNION {[1 .. n -> {MaskWord(0), PtrWord(0)}] : n \in 0 .. MaxPriorLen}

\* Subtrees with their root address, up to MaxSubtreeLen words.
Subtrees ==
    UNION {{[buf |-> b, root |-> r] : b \in [1 .. n -> SubtreeWords(n)],
                                       r \in 0 .. (n - 1)} :
           n \in 1 .. MaxSubtreeLen}

\* The merge thread at line 128, about to merge the subtree of tile 0's
\* builder into a buffer of known length.
InitWriteTree ==
    /\ startedTiles = 1
    /\ completedTiles = 0
    /\ tilesOnGPU = 0
    /\ activeTiles = << >>
    /\ mutex = "free"
    /\ arena \in PriorBuffers
    /\ treePointers = [t \in Tiles |-> DummyPtr]
    /\ mTree \in Subtrees
    /\ bState = [t \in Tiles |-> IF t = 0 THEN "Done" ELSE "None"]
    /\ bTree = [t \in Tiles |-> IF t = 0 THEN mTree ELSE NoTree]
    /\ pcD = "idle"
    /\ dTile = 0
    /\ pcM = "write"
    /\ mI = 0
    /\ mBuilder = 0
    /\ mTile = 0
    /\ mPtr = 0
    /\ pubRoots = [t \in Tiles |-> DummyPtr]
    /\ pubArena = arena
    /\ admitCount = [t \in Tiles |-> IF t = 0 THEN 1 ELSE 0]
    /\ writeCount = [t \in Tiles |-> 0]
    /\ retPtr = [t \in Tiles |-> -1]
    /\ scanStartDone = TRUE
    /\ script = << >>
    /\ dData = NoData
    /\ dSize = 0
    /\ mReleased = {}
    /\ resolution = TileSubdivisons * MinTileResolution
    /\ tileResolution = TileResolutionOf(resolution)
    /\ ctor = "running"
    /\ sceneBounds = UnitScene
    /\ tileRect = [t \in Tiles |-> NoRect]

NextWriteTree == M_WriteTree

SpecWriteTree == InitWriteTree /\ [][NextWriteTree]_vars

\* ------------------------------------------------------------ scripted runs
\* The completion orders tried: every order of the tiles.
Scripts == {s \in [1 .. TileCount -> Tiles] : \A i, j \in 1 .. TileCount : s[i] = s[j] => i = j}

InitScripted == InitCommon /\ script \in Scripts /\ sceneBounds = UnitScene

\* Scheduling: both threads keep running, a thread waiting for the mutex
\* gets it when it is released again and again, every builder finishes.
Fairness ==
    /\ WF_vars(Driver)
    /\ SF_vars(D_Lock)
    /\ WF_vars(Merge)
    /\ SF_vars(M_Lock)
    /\ \A t \in Tiles : WF_vars(B_Finish(t))

FairSpec == Init /\ [][Next]_vars /\ Fairness

\* The pipeline with the builders finishing in a scripted order.
ScriptedSpec == InitScripted /\ [][Next]_vars /\ Fairness

\* ------------------------------------------------------------ tileBounds alone
\* Light-space coordinates are binary floating-point numbers.  They are
\* modelled in units of the smallest step, with MantissaBits significant
\* bits and rounding to nearest, ties to even.
MantissaBits == 3
MaxCoord == 32

RECURSIVE Pow2(_)
Pow2(k) == IF k = 0 THEN 1 ELSE 2 * Pow2(k - 1)

Abs(v) == IF v < 0 THEN -v ELSE v

\* n / d rounded to an integer, ties to even (n >= 0, d > 0).
RoundHalfEven(n, d) ==
    LET q == n \div d
        r == n % d
    IN  IF 2 * r < d THEN q
        ELSE IF 2 * r > d THEN q + 1
        ELSE IF q % 2 = 0 THEN q ELSE q + 1

\* The spacing of the floating-point numbers around n / d.
RECURSIVE Quantum(_, _, _)
Quantum(n, d, q) ==
    IF n < Pow2(MantissaBits) * q * d THEN q ELSE Quantum(n, d, 2 * q)

\* The floating-point number nearest to n / d (d > 0).
FRound(n, d) ==
    LET q == Quantum(Abs(n), d, 1)
        m == RoundHalfEven(Abs(n), d * q) * q
    IN  IF n < 0 THEN -m ELSE m

\* The float operations of tileBounds.
FAdd(a, b) == FRound(a + b, 1)
FSub(a, b) == FRound(a - b, 1)
FMul(a, k) == FRound(a * k, 1)
FDiv(a, k) == FRound(a, k)

\* tileBounds, lines 233-253: the rectangle of tile index in the scene
\* bounds sb, with the cell (x, y) it was computed from.
TileBoundsOf(sb, index) ==
    LET tileSizeX == FDiv(FSub(sb.maxX, sb.minX), TileSubdivisons)
        tileSizeY == FDiv(FSub(sb.maxY, sb.minY), TileSubdivisons)
        x == index \div TileSubdivisons
        y == index % TileSubdivisons
        posX == FAdd(sb.minX, FMul(tileSizeX, x))
        posY == FAdd(sb.minY, FMul(tileSizeY, y))
    IN  [cx |-> x, cy |-> y,
         minX |-> posX, maxX |-> FAdd(posX, tileSizeX),
         minY |-> posY, maxY |-> FAdd(posY, tileSizeY)]

\* Coordinates tried: floating-point numbers up to MaxCoord that are
\* multiples of TileCount steps, so that a quotient by TileSubdivisons stays
\* clear of the smallest step.
Coords ==
    {v \in (-MaxCoord) .. MaxCoord : v % TileCount = 0 /\ FRound(v, 1) = v}

\* sceneBoundsLightSpace, lines 199-231: bounds that contain the origin.
Scenes ==
    {[minX |-> a, maxX |-> b, minY |-> c, maxY |-> d] :
        a \in {v \in Coords : v <= 0}, b \in {v \in Coords : v >= 0},
        c \in {v \in Coords : v <= 0}, d \in {v \in Coords : v >= 0}}

InitTileBounds == InitCommon /\ script = << >> /\ sceneBounds \in Scenes

\* line 89: bounds = tileBounds(tileIndex), for any tile index.
D_TileBounds(i) ==
    /\ tileRect[i] = NoRect
    /\ tileRect' = [tileRect EXCEPT ![i] = TileBoundsOf(sceneBounds, i)]
    /\ UNCHANGED << counters, activeTiles, mutex, treePointers, arena,
                    builders, driverLocals, mergeLocals, published, history,
                    mReleased, script, resolution, tileResolution, ctor,
                    sceneBounds >>

NextTileBounds == \E i \in Tiles : D_TileBounds(i)

SpecTileBounds == InitTileBounds /\ [][NextTileBounds]_vars

\* ------------------------------------------------------------ unsynchronised reads
\* The driver reads treePointers_ (lines 181-184) and the writer's buffer
\* (lines 192-196) while the merge thread writes them (lines 128-129), with
\* no lock held.  The actions above give the reads the latest values; the
\* actions below give the other outcomes.

\* The table as the driver can read it: an entry stored since the merge
\* thread last released the mutex is read as stored or, when the driver has
\* not seen it yet, as the dummy address it held before.
StaleViews ==
    {v \in [Tiles -> {DummyPtr} \cup {treePointers[t] : t \in Tiles}] :
       /\ v # treePointers
       /\ \A t \in Tiles :
             \/ v[t] = treePointers[t]
             \/ /\ v[t] = DummyPtr
                /\ t \in StoredEntries \ mReleased
                /\ pubRoots[t] = DummyPtr}

\* line 70 with an entry read before the merge thread's store reached it.
D_UniformStale ==
    /\ pcD = "uniform"
    /\ pubRoots' \in StaleViews
    /\ pcD' = "treebuf"
    /\ UNCHANGED << counters, activeTiles, mutex, treePointers, arena,
                    builders, dTile, mergeLocals, pubArena, dData, dSize,
                    history, setup, mReleased >>

\* What a read of freed storage returns.
PoisonWord == << "x", 0 >>

\* line 196 after writeTree appended to the buffer since line 192: the
\* growable buffer has moved and treeData refers to freed storage.
D_UploadDangling ==
    /\ pcD = "tb_upload"
    /\ dData # Len(arena)
    /\ pubArena' = [i \in 1 .. dSize |-> PoisonWord]
    /\ dData' = NoData
    /\ dSize' = 0
    /\ pcD' = "idle"
    /\ UNCHANGED << counters, activeTiles, mutex, treePointers, arena,
                    builders, dTile, mergeLocals, pubRoots, history, setup,
                    mReleased >>

NextRacy == Next \/ D_UniformStale \/ D_UploadDangling

RacySpec == Init /\ [][NextRacy]_vars

\* ------------------------------------------------------------ construction runs
\* The constructor, then the pipeline it started.
NextConstruct == Construct \/ Next

SpecConstruct == InitConstruct /\ [][NextConstruct]_vars

\* ------------------------------------------------------------ claims

\* C1: in every reachable state tilesOnGPU <= completedTiles <=
\* startedTiles <= TileCount.
CountersOrdered ==
    /\ tilesOnGPU <= completedTiles
    /\ completedTiles <= startedTiles
    /\ startedTiles <= TileCount

\* C2: no step of any thread lowers startedTiles, completedTiles or
\* tilesOnGPU.
CountersMonotone ==
    [][ /\ startedTiles' >= startedTiles
        /\ completedTiles' >= completedTiles
        /\ tilesOnGPU' >= tilesOnGPU ]_vars

\* All three counters have been raised.
CountersRaised ==
    /\ startedTiles >= 2
    /\ completedTiles >= 2
    /\ tilesOnGPU >= 2

\* C3: the active-builder collection never holds more than ConcurrentBuilds
\* handles.
ActiveWithinCap == Len(activeTiles) <= ConcurrentBuilds

\* The collection is full while the merge thread is scanning it.
ActiveAtCap ==
    /\ Len(activeTiles) = ConcurrentBuilds
    /\ pcM = "find"
    /\ startedTiles > ConcurrentBuilds

\* Every tile below startedTiles has one builder, every other tile none;
\* the tile being admitted has its builder from the push on.
AdmittedOnce ==
    /\ \A t \in Tiles : admitCount[t] <= 1
    /\ \A t \in Tiles : t < startedTiles => admitCount[t] = 1
    /\ startedTiles = TileCount => \A t \in Tiles : admitCount[t] = 1

\* processFirstQueuedTile called with every tile started changes nothing.
AdmitNoOpWhenAllStarted ==
    (startedTiles = TileCount /\ pcD = "pf_check" /\ pcD' # pcD)
        => /\ pcD' = "gate"
           /\ UNCHANGED << startedTiles, activeTiles, mutex, bState, bTree,
                           admitCount, dTile >>

\* C4: every tile index is admitted exactly once: no builder is created
\* twice for a tile, none is skipped once startedTiles reaches TileCount,
\* and processFirstQueuedTile is a no-op from then on.
EachTileAdmittedOnce == []AdmittedOnce /\ [][AdmitNoOpWhenAllStarted]_vars

\* processFirstQueuedTile is entered after every tile was started.
AdmitCalledWhenAllStarted ==
    /\ startedTiles = TileCount
    /\ pcD = "pf_check"
    /\ \A t \in Tiles : admitCount[t] = 1

\* An entry holds the dummy pointer until the merge loop stores into it,
\* and afterwards what writeTree returned for that tile's subtree.
RootTableEntries ==
    \A t \in Tiles :
        /\ writeCount[t] <= 1
        /\ writeCount[t] = 0 => treePointers[t] = DummyPtr
        /\ bState[t] \in {"None", "Building"} => writeCount[t] = 0
        /\ writeCount[t] = 1 => /\ retPtr[t] # -1
                                /\ treePointers[t] = retPtr[t]

\* Only line 129 of the merge loop writes the table, one entry per write.
RootTableWrittenByMerge ==
    treePointers' # treePointers
        => /\ pcM = "store"
           /\ pcM' = "delete"
           /\ treePointers' = [treePointers EXCEPT ![mTile] = mPtr]
           /\ mPtr = retPtr[mTile]

\* C5: every Root Pointer Table entry is the dummy node's address until its
\* tile is merged and is written exactly once, by the merge loop, with the
\* pointer writeTree returned for that tile's subtree.
RootTableWrittenOnce == []RootTableEntries /\ [][RootTableWrittenByMerge]_vars

\* One tile's entry is written while another's still holds the dummy.
RootTablePartlyWritten ==
    \E t, u \in Tiles :
        /\ writeCount[t] = 1
        /\ treePointers[t] # DummyPtr
        /\ writeCount[u] = 0
        /\ bState[u] = "Done"

\* The relocated copy of tile t's subtree lies in the buffer and
\* treePointers[t] addresses its root: word for word the builder's buffer,
\* every pointer moved by the copy's base and landing inside the copy.
RootAddressesOwnSubtree(t) ==
    LET T == bTree[t]
        p == treePointers[t]
        base == p - T.root
        n == Len(T.buf)
    IN  /\ n > 0
        /\ p \in 0 .. (Len(arena) - 1)
        /\ base >= Len(DummyWrite.data)
        /\ base + n <= Len(arena)
        /\ \A i \in 1 .. n :
              IF T.buf[i][1] = "p"
              THEN /\ arena[base + i] = << "p", T.buf[i][2] + base >>
                   /\ arena[base + i][2] \in base .. (base + n - 1)
              ELSE arena[base + i] = T.buf[i]

\* C6: whatever the order in which the builders finish and are merged, once
\* completedTiles = TileCount every Root Pointer Table entry is a pointer
\* into the final buffer that addresses the relocated root of its own
\* tile's subtree.
MergeOrderIndependent ==
    completedTiles = TileCount => \A t \in Tiles : RootAddressesOwnSubtree(t)

\* All tiles merged, in an order that is not the admission order.
MergedOutOfOrder ==
    /\ completedTiles = TileCount
    /\ treePointers[1] < treePointers[0]
    /\ treePointers[3] < treePointers[2]

\* C7: writeTree on a buffer of length L appends a copy of the subtree in
\* which every pointer is the original plus L, returns the root plus L, and
\* leaves the words below L as they were.
WriteTreeRelocates ==
    [][ (pcM = "write" /\ pcM' = "store")
          => LET L == Len(arena)
                 n == Len(mTree.buf)
             IN  /\ Len(arena') = L + n
                 /\ \A i \in 1 .. L : arena'[i] = arena[i]
                 /\ \A i \in 1 .. n :
                       arena'[L + i] = IF mTree.buf[i][1] = "p"
                                       THEN << "p", mTree.buf[i][2] + L >>
                                       ELSE mTree.buf[i]
                 /\ mPtr' = mTree.root + L ]_vars

\* A subtree with a pointer word and a root away from 0 was merged into a
\* buffer of 2 words.
WriteTreeMovedPointers ==
    /\ pcM = "store"
    /\ Len(arena) = 2 + Len(mTree.buf)
    /\ mTree.root > 0
    /\ mPtr = mTree.root + 2
    /\ \E i \in 1 .. Len(mTree.buf) : mTree.buf[i][1] = "p" /\ mTree.buf[i][2] > 0

\* The completion order of the end-to-end scenario, and one the cap admits.
ScenarioOrder == << 2, 0, 3, 1 >>
AdmissibleOrder == << 1, 0, 3, 2 >>

NoBuildComplete == \A t \in Tiles : bState[t] \in {"None", "Building"}

AllEntriesDummy == \A t \in Tiles : treePointers[t] = DummyPtr

\* All tiles are merged and the entries are distinct valid addresses.
ScenarioEnd ==
    /\ completedTiles = TileCount
    /\ \A t \in Tiles : treePointers[t] # DummyPtr /\ RootAddressesOwnSubtree(t)
    /\ \A t, u \in Tiles : t # u => treePointers[t] # treePointers[u]

\* C8 as stated: before any build completes all entries equal the dummy
\* node's address, and after the tiles complete in the order 2, 0, 3, 1 all
\* entries are distinct valid addresses and completedTiles = 4.
EndToEndScenario ==
    /\ [](NoBuildComplete => AllEntriesDummy)
    /\ (script = ScenarioOrder) ~> ScenarioEnd

\* C8 amended: before any build completes all entries equal the dummy
\* node's address; the order 2, 0, 3, 1 never completes a tile under the cap
\* of 2; after the tiles complete in the order 1, 0, 3, 2 all entries are
\* distinct valid addresses and completedTiles = 4.
EndToEndAdmissibleScenario ==
    /\ [](NoBuildComplete => AllEntriesDummy)
    /\ [](script = ScenarioOrder => NoBuildComplete /\ completedTiles = 0)
    /\ (script = AdmissibleOrder) ~> ScenarioEnd

\* The admissible scenario has run to its end.
AdmissibleScenarioEnd == script = AdmissibleOrder /\ ScenarioEnd

\* The merge loop has terminated and everything is published.
PipelineFinished ==
    /\ completedTiles = TileCount
    /\ pcM = "done"
    /\ tilesOnGPU = TileCount

\* C9: under fair scheduling the pipeline reaches completedTiles =
\* TileCount, the merge loop then terminates and tilesOnGPU reaches
\* TileCount; before that some thread can always take a step.
PipelineTerminates ==
    /\ [](~PipelineFinished => ENABLED (Driver \/ Merge))
    /\ <>(completedTiles = TileCount)
    /\ [](completedTiles = TileCount => <>(pcM = "done"))
    /\ <>[]PipelineFinished

\* The driver's steps through the publish gate of one updateBuild call.
PublishGateStep ==
    /\ (pcD = "gate" /\ pcD' # pcD)
         => /\ pcD' = IF completedTiles > tilesOnGPU THEN "assign" ELSE "idle"
            /\ UNCHANGED << tilesOnGPU, pubRoots, pubArena >>
    /\ (pcD = "assign" /\ pcD' # pcD)
         => /\ tilesOnGPU' = completedTiles
            /\ pcD' = "uniform"
    /\ (pcD = "uniform" /\ pcD' # pcD)
         => /\ \A t \in Tiles : pubRoots'[t] \in {treePointers[t], DummyPtr}
            /\ pcD' = "treebuf"
    /\ (pcD = "treebuf" /\ pcD' # pcD) => pcD' = "tb_size"
    /\ (pcD = "tb_size" /\ pcD' # pcD) => pcD' = "tb_upload"
    /\ (pcD = "tb_upload" /\ pcD' # pcD)
         => /\ Len(pubArena') = dSize
            /\ pcD' = "idle"
    /\ (pcD' = "assign" /\ pcD # "assign")
         => pcD = "gate" /\ completedTiles > tilesOnGPU
    /\ tilesOnGPU' # tilesOnGPU => pcD = "assign"
    /\ pubRoots' # pubRoots => pcD = "uniform"
    /\ pubArena' # pubArena => pcD = "tb_upload"

\* C10: updateBuild republishes exactly when it sees completedTiles >
\* tilesOnGPU, and then sets tilesOnGPU to completedTiles; a call that sees
\* them equal publishes nothing and leaves tilesOnGPU unchanged.
PublishGate == [][PublishGateStep]_vars

\* A publish is under way: the count is stored, the uploads are next.
PublishUnderWay ==
    /\ pcD = "uniform"
    /\ tilesOnGPU >= 1
    /\ tilesOnGPU = completedTiles
    /\ pubRoots # treePointers

\* Nothing of the pipeline exists: no builder, no merge thread, no data.
NothingStarted ==
    /\ startedTiles = 0
    /\ activeTiles = << >>
    /\ \A t \in Tiles : bState[t] = "None" /\ admitCount[t] = 0
    /\ pcM = "unstarted"
    /\ arena = << >>

\* C11 as stated: the constructor accepts resolution 8 and aborts on the
\* resolutions 4 and 32769, before any builder is admitted or the merge
\* thread is started.
ConstructionBoundary ==
    ctor # "new" =>
        /\ resolution = 8 => ctor = "running"
        /\ resolution \in {4, 32769} => ctor = "aborted" /\ NothingStarted

\* C11 amended: the limits apply to the tile resolution, resolution /
\* TileSubdivisons in integer division.  The constructor runs on exactly
\* when the tile resolution lies in 8 .. 16384: a tile resolution of 8 is
\* accepted, tile resolutions of 4 and of 32769 abort before any builder is
\* admitted or the merge thread is started.  With TileSubdivisons = 2 the
\* resolution 8 (tile resolution 4) aborts and the resolution 32769 (tile
\* resolution 16384) is accepted.
TileResolutionBoundary ==
    ctor # "new" =>
        /\ tileResolution = resolution \div TileSubdivisons
        /\ ctor = "running" <=> tileResolution \in 8 .. 16384
        /\ tileResolution = 8 => ctor = "running"
        /\ tileResolution \in {4, 32769} => ctor = "aborted"
        /\ ctor = "aborted" => NothingStarted
        /\ resolution = 8 => ctor = "aborted"
        /\ resolution = 32769 => ctor = "running"

\* The least accepted resolution was constructed and its pipeline has
\* admitted a builder.
LeastResolutionRuns ==
    /\ ctor = "running"
    /\ tileResolution = 8
    /\ resolution = 16
    /\ startedTiles > 0
    /\ pcM # "unstarted"

\* Rectangles i and j share no area.
NoSharedArea(i, j) ==
    \/ tileRect[i].maxX <= tileRect[j].minX
    \/ tileRect[j].maxX <= tileRect[i].minX
    \/ tileRect[i].maxY <= tileRect[j].minY
    \/ tileRect[j].maxY <= tileRect[i].minY

\* The rectangles form a grid that reaches every edge of the domain:
\* neighbours share their common edge, the outer edges are the domain's.
UnionIsDomain ==
    \A i \in Tiles :
        /\ tileRect[i].cx = 0 => tileRect[i].minX = sceneBounds.minX
        /\ tileRect[i].cy = 0 => tileRect[i].minY = sceneBounds.minY
        /\ tileRect[i].cx = TileSubdivisons - 1
              => tileRect[i].maxX = sceneBounds.maxX
        /\ tileRect[i].cy = TileSubdivisons - 1
              => tileRect[i].maxY = sceneBounds.maxY
        /\ \A j \in Tiles :
              /\ tileRect[j].cx = tileRect[i].cx
                    => /\ tileRect[j].minX = tileRect[i].minX
                       /\ tileRect[j].maxX = tileRect[i].maxX
              /\ tileRect[j].cy = tileRect[i].cy
                    => /\ tileRect[j].minY = tileRect[i].minY
                       /\ tileRect[j].maxY = tileRect[i].maxY
              /\ tileRect[j].cx = tileRect[i].cx + 1
                    => tileRect[j].minX = tileRect[i].maxX
              /\ tileRect[j].cy = tileRect[i].cy + 1
                    => tileRect[j].minY = tileRect[i].maxY

\* C12: tileBounds(i) maps i to the cell (i / N, i % N), distinct indices
\* get distinct cells, and the rectangles of all the tiles partition the
\* domain bounds exactly: their union is the domain and no two of them
\* overlap in area.
TilesPartitionDomain ==
    (\A i \in Tiles : tileRect[i] # NoRect) =>
        /\ \A i \in Tiles :
              /\ tileRect[i].cx = i \div TileSubdivisons
              /\ tileRect[i].cy = i % TileSubdivisons
        /\ \A i, j \in Tiles :
              i # j => << tileRect[i].cx, tileRect[i].cy >>
                         # << tileRect[j].cx, tileRect[j].cy >>
        /\ \A i, j \in Tiles : i # j => NoSharedArea(i, j)
        /\ UnionIsDomain

\* A step that reads or changes activeTiles_: the size() of line 60, the
\* push_back of line 100, an iteration of the scan of lines 142-159.
ActiveAccessStep ==
    /\ (pcD = "idle" /\ pcD' # pcD) => mutex = "driver"
    /\ (pcD = "pf_push" /\ pcD' # pcD) => mutex = "driver"
    /\ (pcM = "find" /\ (pcM' # pcM \/ mI' # mI)) => mutex = "merge"
    /\ activeTiles' # activeTiles => mutex # "free"

\* C13: every access to the collection of active builders by either
\* thread, its size included, is made while that thread holds the mutex.
ActiveAccessLocked == [][ActiveAccessStep]_vars

\* Tiles started but not yet counted in completedTiles.
NotYetMerged == startedTiles - completedTiles

\* processFirstQueuedTile is entered: the driver moves to line 82.
AdmitEntered == pcD' = "pf_check" /\ pcD # "pf_check"

\* C14 as stated: processFirstQueuedTile is called at most once per
\* updateBuild call and only when the number of tiles started but not yet
\* merged is below ConcurrentBuilds, so startedTiles - completedTiles never
\* exceeds ConcurrentBuilds.
AdmitBelowCapOfUnmerged ==
    /\ [][AdmitEntered => pcD = "idle" /\ NotYetMerged < ConcurrentBuilds]_vars
    /\ [](NotYetMerged <= ConcurrentBuilds)

\* C14 amended: processFirstQueuedTile is called at most once per
\* updateBuild call, at its start, and only when activeTiles_ holds fewer
\* than ConcurrentBuilds builders; the builder the merge thread has removed
\* but not yet counted is not in activeTiles_, so startedTiles -
\* completedTiles never exceeds ConcurrentBuilds + 1.
AdmitBelowCapOfActive ==
    /\ [][AdmitEntered => pcD = "idle" /\ Len(activeTiles) < ConcurrentBuilds]_vars
    /\ [](Len(activeTiles) <= ConcurrentBuilds)
    /\ [](NotYetMerged <= ConcurrentBuilds + 1)

\* One more tile than the cap is started and not yet counted as merged.
UnmergedAboveCap ==
    /\ NotYetMerged = ConcurrentBuilds + 1
    /\ Len(activeTiles) = ConcurrentBuilds
    /\ pcM \in {"unlock", "gather", "write", "store", "delete", "inc"}

\* The builders in activeTiles_.
ActiveSet == {activeTiles[i] : i \in 1 .. Len(activeTiles)}

\* The merge thread holds a builder it took out of activeTiles_ and has not
\* deleted yet.
MergeHoldsBuilder ==
    \/ pcM = "unlock" /\ mBuilder # NoBuilder
    \/ pcM \in {"gather", "write", "store", "delete"}

HandleLifecycleInv ==
    /\ MergeHoldsBuilder
          => /\ mBuilder \in Tiles
             /\ bState[mBuilder] = "Done"
             /\ mBuilder \notin ActiveSet
    /\ \A t \in ActiveSet : bState[t] \in {"Building", "Done"}
    /\ \A t \in Tiles : bState[t] = "Deleted" => t \notin ActiveSet
    /\ \A t \in Tiles : bState[t] = "None" <=> admitCount[t] = 0
    /\ pcM = "done" => \A t \in Tiles : bState[t] = "Deleted"

HandleLifecycleStep ==
    /\ \A t \in Tiles :
          /\ (bState[t] # "Deleted" /\ bState'[t] = "Deleted")
                => /\ pcM = "delete"
                   /\ mBuilder = t
                   /\ bState[t] = "Done"
                   /\ t \notin ActiveSet
          /\ bState[t] = "Deleted" => bState'[t] = "Deleted"
    /\ (pcM = "delete" /\ pcM' # pcM) => bState[mBuilder] = "Done"
    /\ (pcM = "gather" /\ pcM' # pcM) => bState[mBuilder] = "Done"
    /\ (pcM = "find" /\ mI < Len(activeTiles) /\ (pcM' # pcM \/ mI' # mI))
          => /\ bState[activeTiles[mI + 1]] # "Deleted"
             /\ mBuilder' # mBuilder => bState[mBuilder'] = "Done"

\* C15: the merge loop reads and merges a builder only after it read it as
\* Done; every admitted builder is deleted exactly once, by the merge
\* thread only, after it left activeTiles_; a deleted builder is never in
\* activeTiles_ and never read again.
HandleLifecycle == []HandleLifecycleInv /\ [][HandleLifecycleStep]_vars

\* A builder has been deleted while another one is still active.
BuilderDeleted ==
    /\ pcM = "inc"
    /\ bState[mBuilder] = "Deleted"
    /\ Len(activeTiles) > 0

\* Table entries in which the driver's last read saw a merged pointer.
MergedSeen == {t \in Tiles : pubRoots[t] # DummyPtr}

\* C16: every tile counted in completedTiles has its root pointer stored in
\* treePointers_ (the merge loop has written at least completedTiles
\* entries), so a driver that read completedTiles = k and then read the
\* table has seen the merged pointers of at least k tiles.
TableWrittenBeforeCounter ==
    /\ Cardinality(StoredEntries) >= completedTiles
    /\ pcD # "uniform" => Cardinality(MergedSeen) >= tilesOnGPU

\* The published root of tile t lies inside the uploaded data and the whole
\* subtree it refers to, the dummy node or tile t's relocated subtree, is
\* there.
PublishedRootWhole(t) ==
    LET p == pubRoots[t]
        T == bTree[t]
        base == p - T.root
        n == Len(T.buf)
    IN  /\ p \in 0 .. (Len(pubArena) - 1)
        /\ IF p = DummyPtr
           THEN pubArena[p + 1] = MaskWord(UnshadowedMask)
           ELSE /\ n > 0
                /\ base >= Len(DummyWrite.data)
                /\ base + n <= Len(pubArena)
                /\ \A i \in 1 .. n :
                      pubArena[base + i] = RelocateWord(T.buf[i], base)

\* C17: once a publish has made both uploads, every root address it read
\* in updateUniformBuffer lies inside, and refers to a completely written
\* subtree of, the tree data it uploaded afterwards in updateTreeBuffer,
\* whatever the merge thread did in between.
SnapshotSelfConsistent ==
    pcD \notin {"treebuf", "tb_size", "tb_upload"}
        => \A t \in Tiles : PublishedRootWhole(t)

\* Address p lies in the writer's buffer and the subtree it refers to, the
\* dummy node or tile t's relocated subtree, is there.
ArenaHolds(p, t) ==
    LET T == bTree[t]
        base == p - T.root
        n == Len(T.buf)
    IN  /\ p \in 0 .. (Len(arena) - 1)
        /\ IF p = DummyPtr
           THEN arena[p + 1] = MaskWord(UnshadowedMask)
           ELSE /\ n > 0
                /\ base >= Len(DummyWrite.data)
                /\ base + n <= Len(arena)
                /\ \A i \in 1 .. n : arena[base + i] = RelocateWord(T.buf[i], base)

\* No step shortens the buffer or changes a word it already holds.
ArenaAppendStep ==
    /\ Len(arena') >= Len(arena)
    /\ \A i \in 1 .. Len(arena) : arena'[i] = arena[i]

\* C18: the writer's buffer is append-only after construction: its length
\* never decreases and no merge changes a word below the length it had, so
\* every root pointer of a published snapshot stays a valid address of the
\* same node contents in every later state.
ArenaAppendOnly ==
    /\ [][ArenaAppendStep]_vars
    /\ [](\A t \in Tiles : ArenaHolds(pubRoots[t], t))
    /\ [](\A t \in StoredEntries : ArenaHolds(retPtr[t], t))

\* A merged root is published and the buffer has grown since.
ArenaGrewAfterPublish ==
    /\ pcD = "idle"
    /\ \E t \in Tiles : pubRoots[t] # DummyPtr
    /\ \E t \in Tiles : retPtr[t] >= 0 /\ pubRoots[t] = DummyPtr
    /\ Len(arena) > Len(pubArena)

\* Which thread takes the step.
DriverStep == pcD' # pcD
MergeStep == pcM' # pcM \/ mI' # mI

FrameStep ==
    /\ DriverStep => UNCHANGED << completedTiles, treePointers, arena >>
    /\ MergeStep
          => /\ UNCHANGED << startedTiles, tilesOnGPU >>
             /\ Len(activeTiles') <= Len(activeTiles)
             /\ \A i \in 1 .. Len(activeTiles') :
                   \E j \in 1 .. Len(activeTiles) : activeTiles'[i] = activeTiles[j]
    /\ ~(DriverStep /\ MergeStep)
    /\ (startedTiles' # startedTiles \/ tilesOnGPU' # tilesOnGPU) => DriverStep
    /\ (completedTiles' # completedTiles \/ treePointers' # treePointers
          \/ arena' # arena) => MergeStep
    /\ Len(activeTiles') > Len(activeTiles) => DriverStep

\* C19: a step of the driver leaves completedTiles, treePointers_ and the
\* writer's buffer unchanged; a step of the merge thread leaves
\* startedTiles and tilesOnGPU unchanged and adds no builder to
\* activeTiles_.
FrameConditions == [][FrameStep]_vars

\* Both threads have changed what they own.
BothThreadsActed ==
    /\ startedTiles >= 2
    /\ tilesOnGPU >= 1
    /\ completedTiles >= 1
    /\ Len(activeTiles) >= 1
    /\ Len(arena) > Len(DummyWrite.data)

\* How often builder t occurs in the sequence s.
Occurrences(t, s) == Cardinality({i \in 1 .. Len(s) : s[i] = t})

\* One step of findFinishedBuilder: an iteration that passes over a
\* builder, or the return.
FindStep ==
    (pcM = "find" /\ (pcM' # pcM \/ mI' # mI)) =>
        /\ pcM' = "find"
              => /\ activeTiles' = activeTiles
                 /\ mI < Len(activeTiles)
                 /\ bState[activeTiles[mI + 1]] # "Done"
        /\ (pcM' = "unlock" /\ mBuilder' = NoBuilder)
              => /\ activeTiles' = activeTiles
                 /\ ~scanStartDone
        /\ (pcM' = "unlock" /\ mBuilder' # NoBuilder)
              => /\ mBuilder' \in ActiveSet
                 /\ bState[mBuilder'] = "Done"
                 /\ Len(activeTiles') = Len(activeTiles) - 1
                 /\ \A t \in Tiles :
                       Occurrences(t, activeTiles') =
                          IF t = mBuilder' THEN 0 ELSE Occurrences(t, activeTiles)
        /\ scanStartDone => (pcM' = "unlock" => mBuilder' # NoBuilder)

\* C20: findFinishedBuilder returns a builder exactly when an active
\* builder is Done during the scan: a builder that was Done when the scan
\* began makes it return one, and the one returned is Done.  Exactly the
\* returned builder leaves activeTiles_ (its size drops by one) and every
\* other builder stays in it exactly once, wherever the returned one stood;
\* when none is Done it returns NULL and leaves activeTiles_ unchanged.
FindRemovesOneDone ==
    /\ [][FindStep]_vars
    /\ [](\A t \in Tiles : Occurrences(t, activeTiles) <= 1)
    /\ [](pcM = "find" /\ scanStartDone => \E t \in ActiveSet : bState[t] = "Done")

\* The first of two active builders was returned: the last one took its
\* place.
FirstOfTwoReturned ==
    /\ pcM = "unlock"
    /\ mBuilder # NoBuilder
    /\ mI = 0
    /\ Len(activeTiles) = 1
    /\ mutex = "merge"

====
